---- MODULE Spec2Model ----
(***************************************************************************)
(* Model of translation/translate.py: the tag codec (links2tags and        *)
(* tags2links), TranslatorService (cache, retry loop, deadline), the       *)
(* document walk translate_data, and the per-file driver translate_file.   *)
(*                                                                         *)
(* A text is a sequence of one-character strings.  A JSON value is a       *)
(* tagged record: Str, Num, List or Dict (a Dict keeps its fields in       *)
(* insertion order, as a Python dict does).                                *)
(***************************************************************************)
EXTENDS Integers, Sequences, FiniteSets, TLC

VARIABLES
    (* module-level globals of translate.py *)
    disableCacheSave, maxRuntime, now, writeJSON, currentFileIndex, todoCharCounter,
    (* the file system *)
    files, fsys, outFile,
    (* the TranslatorService instance of the current document *)
    cacheData, cacheDirty, charCount, cachedCharCount,
    (* translate_file's locals and position *)
    pc, data, jobs, excPending,
    (* observation of the last translate call and of the current scope *)
    last, nCalls, provided, scope, visited, deadlineAt,
    (* the codec harness *)
    cText, cOut

vars == << disableCacheSave, maxRuntime, now, writeJSON, currentFileIndex, todoCharCounter,
           files, fsys, outFile,
           cacheData, cacheDirty, charCount, cachedCharCount,
           pc, data, jobs, excPending,
           last, nCalls, provided, scope, visited, deadlineAt, cText, cOut >>

-----------------------------------------------------------------------------
(* Characters and texts *)

AsciiDigits == {"0", "1", "2", "3", "4", "5", "6", "7", "8", "9"}

(* A decimal digit outside ASCII (ARABIC-INDIC DIGIT THREE), which Python's \d matches. *)
UnicodeDigits == {"u0663"}

(* Python's \s on str: the ASCII white space and the Unicode spaces (NO-BREAK SPACE here). *)
WhiteSpace == {" ", "\n", "\t", "u00A0"}

Punct == {"(", ")", "[", "]", ".", ",", "_", "-"}

(* The character class of the second re.sub of translate: [\d\s()\[\].,_-] *)
StripClass == AsciiDigits \cup UnicodeDigits \cup WhiteSpace \cup Punct

(* '.' of a Python regex without DOTALL matches everything but a line feed. *)
DotMatches(c) == c /= "\n"

RECURSIVE Filter(_, _)
Filter(s, drop) ==
    IF s = << >> THEN << >>
    ELSE IF Head(s) \in drop THEN Filter(Tail(s), drop)
         ELSE << Head(s) >> \o Filter(Tail(s), drop)

(* str(n) for n >= 0 *)
DigitChar(d) == CASE d = 0 -> "0" [] d = 1 -> "1" [] d = 2 -> "2" [] d = 3 -> "3"
                  [] d = 4 -> "4" [] d = 5 -> "5" [] d = 6 -> "6" [] d = 7 -> "7"
                  [] d = 8 -> "8" [] OTHER -> "9"

RECURSIVE Str10(_)
Str10(n) == IF n < 10 THEN << DigitChar(n) >> ELSE Str10(n \div 10) \o << DigitChar(n % 10) >>

(* f"(%{count}%)" *)
Marker(count) == << "(", "%" >> \o Str10(count) \o << "%", ")" >>

(* The least index at which pat occurs in s, or 0: str.find(pat) + 1 *)
Find(s, pat) ==
    LET hits == { i \in 1..(Len(s) - Len(pat) + 1) : SubSeq(s, i, i + Len(pat) - 1) = pat }
    IN IF hits = {} THEN 0 ELSE CHOOSE i \in hits : \A j \in hits : i <= j

(* s.replace(pat, rep, 1) *)
ReplaceFirst(s, pat, rep) ==
    LET i == Find(s, pat)
    IN IF i = 0 THEN s
       ELSE SubSeq(s, 1, i - 1) \o rep \o SubSeq(s, i + Len(pat), Len(s))

-----------------------------------------------------------------------------
(* TAG_REGEX = r"{.*?}" *)

(* The end of the match of {.*?} that starts at i, or 0 when there is none: the
   nearest "}" after i with no line feed in between. *)
TagEnd(s, i) ==
    IF s[i] /= "{" THEN 0
    ELSE LET ends == { j \in (i + 1)..Len(s) :
                          /\ s[j] = "}"
                          /\ \A k \in (i + 1)..(j - 1) : DotMatches(s[k]) }
         IN IF ends = {} THEN 0 ELSE CHOOSE j \in ends : \A k \in ends : j <= k

(* re.finditer(TAG_REGEX, s) from position i on: the non-overlapping matches, left to
   right, each as << first, last >>. *)
RECURSIVE TagMatches(_, _)
TagMatches(s, i) ==
    IF i > Len(s) THEN << >>
    ELSE LET e == TagEnd(s, i)
         IN IF e = 0 THEN TagMatches(s, i + 1)
            ELSE << << i, e >> >> \o TagMatches(s, e + 1)

(* re.sub(TAG_REGEX, "", s) *)
RECURSIVE RemoveTags(_, _)
RemoveTags(s, i) ==
    IF i > Len(s) THEN << >>
    ELSE LET e == TagEnd(s, i)
         IN IF e = 0 THEN << s[i] >> \o RemoveTags(s, i + 1)
            ELSE RemoveTags(s, e + 1)

(* The loop of links2tags: ms are the matches found in the ORIGINAL text, text is the
   running text, in which the first occurrence of each match's string is replaced. *)
RECURSIVE links2tagsLoop(_, _, _, _, _)
links2tagsLoop(orig, ms, text, links, count) ==
    IF ms = << >> THEN [text |-> text, links |-> links]
    ELSE LET g == SubSeq(orig, Head(ms)[1], Head(ms)[2])
         IN links2tagsLoop(orig, Tail(ms), ReplaceFirst(text, g, Marker(count)),
                           Append(links, g), count + 1)

links2tags(text) == links2tagsLoop(text, TagMatches(text, 1), text, << >>, 0)

RECURSIVE tags2linksLoop(_, _, _)
tags2linksLoop(text, links, idx) ==
    IF idx >= Len(links) THEN text
    ELSE tags2linksLoop(ReplaceFirst(text, Marker(idx), links[idx + 1]), links, idx + 1)

tags2links(text, links) == tags2linksLoop(text, links, 0)

-----------------------------------------------------------------------------
(* TranslatorService *)

MAX_RETRIES == 5

BASE_DELAY == 1

RECURSIVE Pow2(_)
Pow2(n) == IF n <= 0 THEN 1 ELSE 2 * Pow2(n - 1)

(* The provider (DeepTranslator.translate) is outside the repository.  A stub is what
   the provider does on the successive calls of one translate: stub[i] is TRUE when its
   i-th call returns and FALSE when it raises.  What it returns is the placeholder
   text with the letter of the chosen variant in front, so two variants never agree. *)
Providers == {"A", "B"}

Stubs == [1..MAX_RETRIES -> BOOLEAN]

ProviderResult(prov, text) == << prov >> \o text

(* The first call of a stub that returns, 0 when every call raises. *)
FirstOk(stub) ==
    IF \A i \in DOMAIN stub : ~stub[i] THEN 0
    ELSE CHOOSE i \in DOMAIN stub : stub[i] /\ \A j \in 1..(i - 1) : ~stub[j]

(* A short-text test that forgets to remove the tags first. *)
SkipShortKeepsTags(text) == Len(Filter(text, StripClass)) < 5

(* translate, lines 154-156: the short-text test *)
SkipShort(text) == Len(Filter(RemoveTags(text, 1), StripClass)) < 5

(* cacheGet: dict.get, None when the key is absent *)
cacheGet(cache, key) ==
    IF key \in DOMAIN cache THEN [found |-> TRUE, value |-> cache[key]]
    ELSE [found |-> FALSE, value |-> << >>]

(* A cacheSet that stores the entry without marking the cache dirty. *)
cacheSetKeepsClean(cache, dirty, key, value, disabled) ==
    IF disabled THEN [cache |-> cache, dirty |-> dirty]
    ELSE [cache |-> [k \in DOMAIN cache \cup { key } |-> IF k = key THEN value ELSE cache[k]],
          dirty |-> dirty]

(* A cacheSet that stores the entry although cache-writing is disabled. *)
cacheSetIgnoresDisabled(cache, dirty, key, value, disabled) ==
    [cache |-> [k \in DOMAIN cache \cup { key } |-> IF k = key THEN value ELSE cache[k]],
     dirty |-> TRUE]

(* A cacheSet that marks the cache dirty but loses the entry. *)
cacheSetLosesEntry(cache, dirty, key, value, disabled) ==
    [cache |-> cache, dirty |-> dirty \/ ~disabled]

(* cacheSet: a no-op while the global disableCacheSave is set *)
cacheSet(cache, dirty, key, value, disabled) ==
    IF disabled THEN [cache |-> cache, dirty |-> dirty]
    ELSE [cache |-> [k \in DOMAIN cache \cup {key} |-> IF k = key THEN value ELSE cache[k]],
          dirty |-> TRUE]

(* translate, line 174 *)
DeadlineExceeded(maxRt, elapsed) == maxRt /= 0 /\ elapsed > maxRt

(* A backoff that grows linearly: 1, 2, 3, 4. *)
DelayLinear(attempt) == BASE_DELAY * attempt

(* translate, line 187: the delay before attempt (0-based), none before attempt 0 *)
Delay(attempt) == IF attempt > 0 THEN BASE_DELAY * Pow2(attempt - 1) ELSE 0

(* A retry loop without the break: it goes on calling the provider after a success. *)
RECURSIVE RetryLoopNoBreak(_, _, _)
RetryLoopNoBreak(attempt, stub, acc) ==
    IF attempt >= MAX_RETRIES THEN acc
    ELSE LET slept == IF attempt > 0 THEN Append(acc.sleeps, Delay(attempt)) ELSE acc.sleeps
         IN RetryLoopNoBreak(attempt + 1, stub,
                [ok |-> acc.ok \/ stub[attempt + 1], calls |-> acc.calls + 1,
                 failures |-> acc.failures + (IF stub[attempt + 1] THEN 0 ELSE 1),
                 sleeps |-> slept])

(* translate, lines 185-215: for attempt in range(MAX_RETRIES), break on success *)
RECURSIVE RetryLoop(_, _, _)
RetryLoop(attempt, stub, acc) ==
    IF attempt >= MAX_RETRIES THEN acc
    ELSE LET slept == IF attempt > 0 THEN Append(acc.sleeps, Delay(attempt)) ELSE acc.sleeps
         IN IF stub[attempt + 1]
            THEN [ok |-> TRUE, calls |-> acc.calls + 1, failures |-> acc.failures,
                  sleeps |-> slept]
            ELSE RetryLoop(attempt + 1, stub,
                           [ok |-> FALSE, calls |-> acc.calls + 1,
                            failures |-> acc.failures + 1, sleeps |-> slept])

(* A translate that returns nothing when the provider never answered. *)
ExhaustedReturnsNothing(text) == << >>

(* translate, lines 217-227: after MAX_RETRIES failures, return text *)
ExhaustedReturn(text) == text

RECURSIVE SumSeq(_)
SumSeq(s) == IF s = << >> THEN 0 ELSE Head(s) + SumSeq(Tail(s))

(* The outcome of one translate(text) call on the service state svc =
   [cacheData, cacheDirty, charCount, cachedCharCount]: what it returns or raises, the
   service state it leaves, and what it did on the way. *)
translate(text, svc, stub, prov, disabled, maxRt, elapsed) ==
    LET base == [kind |-> "skip", text |-> text, ret |-> text, svc |-> svc,
                 calls |-> 0, failures |-> 0, sleeps |-> << >>,
                 cacheRead |-> FALSE, deadlineChecked |-> FALSE,
                 firstOk |-> FirstOk(stub), prov |-> prov]
    IN IF SkipShort(text) THEN base
       ELSE LET cached == cacheGet(svc.cacheData, text)
            IN IF cached.found
               THEN [base EXCEPT !.kind = "hit", !.ret = cached.value, !.cacheRead = TRUE,
                                 !.svc.cachedCharCount = @ + Len(text)]
               ELSE IF DeadlineExceeded(maxRt, elapsed)
               THEN [base EXCEPT !.kind = "deadline", !.cacheRead = TRUE,
                                 !.deadlineChecked = TRUE]
               ELSE LET ex   == links2tags(text)
                        loop == RetryLoop(0, stub, [ok |-> FALSE, calls |-> 0,
                                                    failures |-> 0, sleeps |-> << >>])
                        counted == [svc EXCEPT !.charCount = @ + Len(text)]
                        miss == [base EXCEPT !.cacheRead = TRUE, !.deadlineChecked = TRUE,
                                             !.calls = loop.calls,
                                             !.failures = loop.failures,
                                             !.sleeps = loop.sleeps]
                    IN IF ~loop.ok
                       THEN [miss EXCEPT !.kind = "exhausted", !.svc = counted,
                                         !.ret = ExhaustedReturn(text)]
                       ELSE LET translated == tags2links(ProviderResult(prov, ex.text),
                                                         ex.links)
                                set == cacheSet(counted.cacheData, counted.cacheDirty,
                                                text, translated, disabled)
                            IN [miss EXCEPT !.kind = "ok", !.ret = translated,
                                            !.svc = [counted EXCEPT
                                                       !.cacheData = set.cache,
                                                       !.cacheDirty = set.dirty]]

-----------------------------------------------------------------------------
(* JSON values: what json.load returns *)

Str(s) == [t |-> "str", s |-> s]

Num(n) == [t |-> "num", n |-> n]

List(l) == [t |-> "list", l |-> l]

(* d is the sequence of the fields [k |-> key, v |-> value], in insertion order *)
Dict(d) == [t |-> "dict", d |-> d]

Field(k, v) == [k |-> k, v |-> v]

K_entry == << "e", "n", "t", "r", "y" >>

K_effect == << "e", "f", "f", "e", "c", "t" >>

K_other == << "o", "t", "h", "e", "r" >>

K_items == << "i", "t", "e", "m", "s" >>

K_type == << "t", "y", "p", "e" >>

K_entries == << "e", "n", "t", "r", "i", "e", "s" >>

K_rows == << "r", "o", "w", "s" >>

K_headerEntries == << "h", "e", "a", "d", "e", "r", "E", "n", "t", "r", "i", "e", "s" >>

K_reasons == << "r", "e", "a", "s", "o", "n", "s" >>

K_lifeTrinket == << "l", "i", "f", "e", "T", "r", "i", "n", "k", "e", "t" >>

V_list == << "l", "i", "s", "t" >>

(* translate_data, lines 255-263 *)
ListKeys == { K_entries, K_items, K_rows, K_headerEntries, K_reasons, K_other,
              K_lifeTrinket }

(* The children of a list or dict, by position; a path is a sequence of positions. *)
Size(node) == CASE node.t = "list" -> Len(node.l) [] node.t = "dict" -> Len(node.d)
                [] OTHER -> 0

Child(node, i) == IF node.t = "list" THEN node.l[i] ELSE node.d[i].v

RECURSIVE Get(_, _)
Get(node, path) == IF path = << >> THEN node ELSE Get(Child(node, Head(path)), Tail(path))

(* node with the value at path replaced: data[k][idx]... = val *)
RECURSIVE Set(_, _, _)
Set(node, path, val) ==
    IF path = << >> THEN val
    ELSE LET i == Head(path)
             sub == Set(Child(node, i), Tail(path), val)
         IN IF node.t = "list" THEN [node EXCEPT !.l[i] = sub]
            ELSE [node EXCEPT !.d[i].v = sub]

HasKey(node, key) == \E i \in 1..Len(node.d) : node.d[i].k = key

(* data[key], for a key the dict has *)
Lookup(node, key) == node.d[CHOOSE i \in 1..Len(node.d) : node.d[i].k = key].v

-----------------------------------------------------------------------------
(* translate_data: the walk.  What the walk does next never depends on what translate
   returned (the tests are on types, on keys, on the "type" field and on the length of
   an element not yet translated), so the walk is the sequence of its steps, in order:
     translate  translate(value at path) and store the result at path;
     key        translate(first key of the dict at path) and store the result under
                the new key 0, after which the loop over the dict raises;
     raise      an error raised by the walk itself. *)

Job(op, path) == [op |-> op, path |-> path]

(* An items rule that skips only when the type field is present and is not "list". *)
ItemsSkippedIfTyped(node) == HasKey(node, K_type) /\ Lookup(node, K_type) /= Str(V_list)

(* line 266: "type" not in data or data["type"] != "list" *)
ItemsSkipped(node) == ~HasKey(node, K_type) \/ Lookup(node, K_type) /= Str(V_list)

(* A nested-list rule that sends every selected element through translate twice. *)
NestedJobsTwice(entry, path) ==
    LET RECURSIVE Each(_)
        Each(i) ==
            IF i > Len(entry.l) THEN << >>
            ELSE (IF entry.l[i].t = "str" /\ Len(entry.l[i].s) > 2
                  THEN << Job("translate", Append(path, i)),
                          Job("translate", Append(path, i)) >>
                  ELSE << >>) \o Each(i + 1)
    IN Each(1)

(* A nested-list rule without the length test. *)
NestedJobsAnyLength(entry, path) ==
    LET RECURSIVE Each(_)
        Each(i) ==
            IF i > Len(entry.l) THEN << >>
            ELSE (IF entry.l[i].t = "str"
                  THEN << Job("translate", Append(path, i)) >> ELSE << >>) \o Each(i + 1)
    IN Each(1)

(* lines 270-273: the elements of a nested list that are translated in place *)
NestedJobs(entry, path) ==
    LET RECURSIVE Each(_)
        Each(i) ==
            IF i > Len(entry.l) THEN << >>
            ELSE (IF entry.l[i].t = "str" /\ Len(entry.l[i].s) > 2
                  THEN << Job("translate", Append(path, i)) >> ELSE << >>) \o Each(i + 1)
    IN Each(1)

(* lines 250-252: one section of an "other" mapping; enumerate() of a list gives its
   elements, of a string its characters (translate returns a character as it is and
   the item assignment into the string raises), of a dict its keys, and of a number
   raises at once. *)
SectionJobs(items, path) ==
    CASE items.t = "list" ->
            [i \in 1..Len(items.l) |-> Job("translate", Append(path, i))]
      [] items.t = "str" -> IF items.s = << >> THEN << >> ELSE << Job("raise", path) >>
      [] items.t = "dict" ->
            IF items.d = << >> THEN << >> ELSE << Job("key", path), Job("raise", path) >>
      [] OTHER -> << Job("raise", path) >>

RECURSIVE translate_data(_, _)
translate_data(node, path) ==
    LET RECURSIVE Elements(_)
        Elements(i) ==
            IF i > Size(node) THEN << >>
            ELSE translate_data(node.l[i], Append(path, i)) \o Elements(i + 1)
        RECURSIVE Sections(_, _, _)
        Sections(v, vpath, j) ==
            IF j > Len(v.d) THEN << >>
            ELSE SectionJobs(v.d[j].v, Append(vpath, j)) \o Sections(v, vpath, j + 1)
        RECURSIVE Entries(_, _, _)
        Entries(v, vpath, idx) ==
            IF idx > Len(v.l) THEN << >>
            ELSE LET entry == v.l[idx]
                     epath == Append(vpath, idx)
                 IN (IF entry.t = "list" THEN NestedJobs(entry, epath) ELSE << >>)
                    \o (IF entry.t = "str" THEN << Job("translate", epath) >>
                        ELSE translate_data(entry, epath))
                    \o Entries(v, vpath, idx + 1)
        RECURSIVE Fields(_)
        Fields(i) ==
            IF i > Size(node) THEN << >>
            ELSE LET k == node.d[i].k
                     v == node.d[i].v
                     vpath == Append(path, i)
                 IN (CASE k \in { K_entry, K_effect } /\ v.t = "str" ->
                             << Job("translate", vpath) >>
                       [] k = K_other /\ v.t = "dict" -> Sections(v, vpath, 1)
                       [] k \in ListKeys /\ v.t = "list" ->
                             IF k = K_items /\ ItemsSkipped(node) THEN << >>
                             ELSE Entries(v, vpath, 1)
                       [] OTHER -> translate_data(v, vpath))
                    \o Fields(i + 1)
    IN CASE node.t = "list" -> Elements(1)
         [] node.t = "dict" -> Fields(1)
         [] OTHER -> << >>

-----------------------------------------------------------------------------
(* Texts and input documents *)

Long1 == << "a", "b", "c", "d", "e" >>

Long2 == << "a", "b", "{", "x", "}", "c", "d", "e" >>

Short1 == << "a", "b", "c", "d" >>

Short2 == << "a", "b", "{", "x", "y", "z", "}", "[", "c", "]", "_", "-", ",", "d", " ",
            "1", "." >>

Short3 == << "a", "b", "c", "d", "u0663" >>

K_name == << "n", "a", "m", "e" >>

K_notes == << "n", "o", "t", "e", "s" >>

V_weapon == << "w", "e", "a", "p", "o", "n" >>

(* {"type": "list", "items": ["abcde", "abcd"], "entry": "ab{x}cde"} *)
DocSpell == Dict(<< Field(K_type, Str(V_list)),
                    Field(K_items, List(<< Str(Long1), Str(Short1) >>)),
                    Field(K_entry, Str(Long2)) >>)

(* {"type": "weapon", "items": ["abcde"], "entry": "ab{x}cde"} *)
DocWeapon == Dict(<< Field(K_type, Str(V_weapon)),
                     Field(K_items, List(<< Str(Long1) >>)),
                     Field(K_entry, Str(Long2)) >>)

(* {"name": "abcde", "items": ["abcde"], "effect": "ab{x}cde"} *)
DocNoType == Dict(<< Field(K_name, Str(Long1)),
                     Field(K_items, List(<< Str(Long1) >>)),
                     Field(K_effect, Str(Long2)) >>)

(* {"other": {"notes": ["abcde", "ab{x}cde", 5]}, "entry": "abcde"} *)
DocOther == Dict(<< Field(K_other, Dict(<< Field(K_notes,
                        List(<< Str(Long1), Str(Long2), Num(5) >>)) >>)),
                    Field(K_entry, Str(Long1)) >>)

(* [{"entries": [["ab", "abcde", 5, {"entry": "ab{x}cde"}], {"items": ["abcde"]},
                 "ab{x}cde"]}] *)
DocNested ==
    List(<< Dict(<< Field(K_entries, List(<<
                List(<< Str(<< "a", "b" >>), Str(Long1), Num(5),
                        Dict(<< Field(K_entry, Str(Long2)) >>) >>),
                Dict(<< Field(K_items, List(<< Str(Long1) >>)) >>),
                Str(Long2) >>)) >>) >>)

-----------------------------------------------------------------------------
(* Values the variables of a harness that is not running keep *)

NoCall == [kind |-> "none", text |-> << >>, ret |-> << >>, calls |-> 0, failures |-> 0,
           sleeps |-> << >>, cacheRead |-> FALSE, deadlineChecked |-> FALSE,
           firstOk |-> 0, prov |-> "A"]

EmptyMap == [k \in {} |-> << >>]

(* Files: a cache file or its temporary file is absent, holds a serialized mapping,
   holds something json.load rejects (corrupt from the start, or left empty or partial
   by an unfinished write), or holds bytes that cannot be decoded. *)
Absent == [kind |-> "absent", map |-> EmptyMap]

Corrupt == [kind |-> "corrupt", map |-> EmptyMap]

Empty == [kind |-> "empty", map |-> EmptyMap]

Partial == [kind |-> "partial", map |-> EmptyMap]

(* A file whose bytes are no UTF-8 text: reading it raises UnicodeDecodeError. *)
Undecodable == [kind |-> "undecodable", map |-> EmptyMap]

Json(m) == [kind |-> "json", map |-> m]

NoOutput == [written |-> FALSE, doc |-> Dict(<< >>)]

(* What is known of the cache scope of the current document. *)
NoScope == [open |-> FALSE, file |-> 0, diskAtOpen |-> Absent, loaded |-> EmptyMap,
            exited |-> FALSE, dirtyAtExit |-> FALSE, syncStarted |-> FALSE,
            syncFailed |-> FALSE, logged |-> FALSE, walked |-> FALSE]

RunIdle ==
    /\ writeJSON = FALSE /\ currentFileIndex = 0 /\ todoCharCounter = 0
    /\ files = << >> /\ fsys = << >> /\ outFile = << >>
    /\ pc = "idle" /\ data = Dict(<< >>) /\ jobs = << >> /\ excPending = "none"
    /\ scope = NoScope /\ visited = << >> /\ deadlineAt = 0

SvcIdle ==
    /\ disableCacheSave = FALSE /\ maxRuntime = 0 /\ now = 0
    /\ cacheData = EmptyMap /\ cacheDirty = FALSE /\ charCount = 0 /\ cachedCharCount = 0
    /\ last = NoCall /\ nCalls = 0 /\ provided = EmptyMap

CodecIdle == cText = << >> /\ cOut = [stage |-> "idle", text |-> << >>, links |-> << >>]

runVars == << writeJSON, currentFileIndex, todoCharCounter, files, fsys, outFile,
              pc, data, jobs, excPending, scope, visited, deadlineAt >>

svcVars == << disableCacheSave, maxRuntime, now, cacheData, cacheDirty, charCount,
              cachedCharCount, last, nCalls, provided >>

codecVars == << cText, cOut >>

-----------------------------------------------------------------------------
(* The codec alone: links2tags, an identity provider, tags2links *)

MaxTokens == 4

Tokens == { << "{" >>, << "}" >>, << "a" >>, << "\n" >>, Marker(0), Marker(1) }

RECURSIVE Concat(_)
Concat(ts) == IF ts = << >> THEN << >> ELSE Head(ts) \o Concat(Tail(ts))

CodecTexts == { Concat(ts) : ts \in UNION { [1..n -> Tokens] : n \in 0..MaxTokens } }

CodecInit ==
    /\ cText \in CodecTexts
    /\ cOut = [stage |-> "text", text |-> cText, links |-> << >>]
    /\ RunIdle /\ SvcIdle

Extract ==
    /\ cOut.stage = "text"
    /\ cOut' = [stage |-> "extracted", text |-> links2tags(cText).text,
                links |-> links2tags(cText).links]
    /\ UNCHANGED << cText, runVars, svcVars >>

Restore ==
    /\ cOut.stage = "extracted"
    /\ cOut' = [stage |-> "restored", text |-> tags2links(cOut.text, cOut.links),
                links |-> cOut.links]
    /\ UNCHANGED << cText, runVars, svcVars >>

CodecNext == Extract \/ Restore

SpecCodec == CodecInit /\ [][CodecNext]_vars

(* The tags of a text in order of appearance, read off the matches directly. *)
TagsOf(text) ==
    LET ms == TagMatches(text, 1)
    IN [i \in 1..Len(ms) |-> SubSeq(text, ms[i][1], ms[i][2])]

(* C6: for every text with zero or more tags, repeated tags and marker strings such as
   (%0%) included, tags2links(links2tags(text)) = text under an identity provider, and
   links2tags records the tags in order of appearance. *)
C6_RoundTrip ==
    /\ cOut.stage = "extracted" => cOut.links = TagsOf(cText)
    /\ cOut.stage = "restored" => cOut.text = cText

-----------------------------------------------------------------------------
(* One TranslatorService instance, called with arbitrary texts *)

MaxCalls == 2

MaxClock == 2

Min(a, b) == IF a < b THEN a ELSE b

ShortTexts == { Short1, Short2, Short3 }

SvcTexts == { Long1, Long2 } \cup ShortTexts

(* The cache a scope finds on opening when an earlier run has left entries. *)
Preloaded == [k \in { Short1, Long1 } |-> << "Z" >> \o k]

Service == [cacheData |-> cacheData, cacheDirty |-> cacheDirty, charCount |-> charCount,
            cachedCharCount |-> cachedCharCount]

(* What a call leaves behind for observation: the outcome without the service state. *)
Observed(r) == [kind |-> r.kind, text |-> r.text, ret |-> r.ret, calls |-> r.calls,
                failures |-> r.failures, sleeps |-> r.sleeps, cacheRead |-> r.cacheRead,
                deadlineChecked |-> r.deadlineChecked, firstOk |-> r.firstOk,
                prov |-> r.prov]

(* The first provider result this instance returned for each text. *)
Provide(p, r) ==
    IF r.kind = "ok" /\ r.text \notin DOMAIN p
    THEN [k \in DOMAIN p \cup {r.text} |-> IF k = r.text THEN r.ret ELSE p[k]]
    ELSE p

(* The effect of a call on the instance and on the clock (the backoff sleeps). *)
Called(r) ==
    /\ cacheData' = r.svc.cacheData
    /\ cacheDirty' = r.svc.cacheDirty
    /\ charCount' = r.svc.charCount
    /\ cachedCharCount' = r.svc.cachedCharCount
    /\ now' = Min(MaxClock, now + SumSeq(r.sleeps))
    /\ last' = Observed(r)
    /\ nCalls' = nCalls + 1
    /\ provided' = Provide(provided, r)

SvcInit ==
    /\ disableCacheSave \in BOOLEAN
    /\ maxRuntime \in {0, 1}
    /\ now = 0
    /\ cacheData = Preloaded
    /\ cacheDirty = FALSE /\ charCount = 0 /\ cachedCharCount = 0
    /\ last = NoCall /\ nCalls = 0 /\ provided = EmptyMap
    /\ RunIdle /\ CodecIdle

SvcTranslate ==
    /\ nCalls < MaxCalls
    /\ \E text \in SvcTexts, stub \in Stubs, prov \in Providers :
          Called(translate(text, Service, stub, prov, disableCacheSave, maxRuntime, now))
    /\ UNCHANGED << disableCacheSave, maxRuntime, runVars, codecVars >>

(* Wall-clock time passes (time.time() grows) whatever the program does. *)
Tick ==
    /\ now < MaxClock
    /\ pc \notin { "done", "aborted", "crashed" }
    /\ now' = now + 1
    /\ UNCHANGED << disableCacheSave, maxRuntime, cacheData, cacheDirty, charCount,
                    cachedCharCount, last, nCalls, provided, runVars, codecVars >>

SvcNext == SvcTranslate \/ Tick

SpecSvc == SvcInit /\ [][SvcNext]_vars

-----------------------------------------------------------------------------
(* Claims about one TranslatorService instance (SpecSvc) *)

(* A step that is one translate call of the harness. *)
IsCall == nCalls' = nCalls + 1

(* C1 as stated: once translate(x) has returned a provider result, every later
   translate(x) on the instance returns that value and calls no provider. *)
C1_AsStated ==
    [][ (IsCall /\ last'.text \in DOMAIN provided)
          => (last'.ret = provided[last'.text] /\ last'.calls = 0) ]_vars

(* C1 amended: the same, while cache-writing is enabled (disableCacheSave is false). *)
C1_Idempotent ==
    [][ (IsCall /\ ~disableCacheSave /\ last'.text \in DOMAIN provided)
          => (last'.ret = provided[last'.text] /\ last'.calls = 0
              /\ last'.kind = "hit") ]_vars

(* A later call of a text the provider has translated, made with a provider that would
   now answer differently, was served from the cache. *)
C1_Witness ==
    /\ ~disableCacheSave
    /\ last.kind = "hit"
    /\ last.text \in DOMAIN provided
    /\ last.ret = provided[last.text]
    /\ last.ret[1] /= last.prov

(* What the provider's answer becomes once the tags are back. *)
SuccessfulResult(text, prov) ==
    tags2links(ProviderResult(prov, links2tags(text).text), links2tags(text).links)

(* C3: on a cache miss the provider is called at most MAX_RETRIES times and the loop
   stops at the first success: k failures then a success give k+1 calls, k recorded
   failures and the successful result; failures only give MAX_RETRIES calls and
   MAX_RETRIES recorded failures. *)
C3_Retry ==
    last.kind \in {"ok", "exhausted"} =>
        /\ last.calls <= MAX_RETRIES
        /\ \A k \in 0..(MAX_RETRIES - 1) :
              last.firstOk = k + 1 =>
                 /\ last.calls = k + 1
                 /\ last.failures = k
                 /\ last.kind = "ok"
                 /\ last.ret = SuccessfulResult(last.text, last.prov)
        /\ last.firstOk = 0 =>
              /\ last.calls = MAX_RETRIES
              /\ last.failures = MAX_RETRIES
              /\ last.kind = "exhausted"

(* The provider failed four times and succeeded on the fifth call. *)
C3_Witness ==
    /\ last.kind = "ok" /\ last.firstOk = MAX_RETRIES
    /\ last.failures = MAX_RETRIES - 1 /\ last.calls = MAX_RETRIES

(* The claim's reading of the character class: [0-9], white space, ( ) [ ] . , _ - *)
ClaimStripClass == AsciiDigits \cup WhiteSpace \cup Punct

ClaimContentLen(text) == Len(Filter(RemoveTags(text, 1), ClaimStripClass))

(* C5: a text with fewer than 5 characters left after removing the tags and the
   characters [0-9 whitespace ( ) [ ] . , _ -] is returned unchanged, with no provider
   call, no cache read or change, no counter change and no deadline check. *)
C5_ShortSkip ==
    [][ (IsCall /\ ClaimContentLen(last'.text) < 5)
          => /\ last'.ret = last'.text
             /\ last'.calls = 0
             /\ ~last'.cacheRead
             /\ ~last'.deadlineChecked
             /\ UNCHANGED << cacheData, cacheDirty, charCount, cachedCharCount >> ]_vars

(* A short text that is a key of the cache was returned as it is, past the deadline. *)
C5_Witness ==
    /\ last.kind = "skip"
    /\ ClaimContentLen(last.text) < 5
    /\ last.text \in DOMAIN cacheData
    /\ cacheData[last.text] /= last.ret
    /\ DeadlineExceeded(maxRuntime, now)

-----------------------------------------------------------------------------
(* The run: the main loop (lines 397-414) and translate_file *)

InFile(doc, cache) == [doc |-> doc, parsable |-> TRUE, generated |-> FALSE, cache |-> cache]

(* An input file json.load rejects. *)
Malformed(cache) == [doc |-> Dict(<< >>), parsable |-> FALSE, generated |-> FALSE,
                     cache |-> cache]

(* A file whose name starts with data/generated. *)
Generated(doc) == [doc |-> doc, parsable |-> TRUE, generated |-> TRUE, cache |-> Absent]

(* {"other": {"notes": {"abcde": 1}}} *)
DocOtherDict == Dict(<< Field(K_other, Dict(<< Field(K_notes,
                            Dict(<< Field(Long1, Num(1)) >>)) >>)) >>)

(* {"other": {"notes": "ab"}, "entry": "abcde"} *)
DocOtherStr == Dict(<< Field(K_other, Dict(<< Field(K_notes, Str(<< "a", "b" >>)) >>)),
                       Field(K_entry, Str(Long1)) >>)

(* {"rows": [["abcde", 5, "ab"]], "other": ["ab{x}cde"], "lifeTrinket": ["abcd"],
    "headerEntries": [{"reasons": ["abcde"]}]} *)
DocTable ==
    Dict(<< Field(K_rows, List(<< List(<< Str(Long1), Num(5), Str(<< "a", "b" >>) >>) >>)),
            Field(K_other, List(<< Str(Long2) >>)),
            Field(K_lifeTrinket, List(<< Str(Short1) >>)),
            Field(K_headerEntries,
                  List(<< Dict(<< Field(K_reasons, List(<< Str(Long1) >>)) >>) >>)) >>)

(* The file lists of the runs that are checked. *)
Runs ==
    { << InFile(DocSpell, Absent), InFile(DocWeapon, Json(Preloaded)) >>,
      << InFile(DocNoType, Corrupt), InFile(DocOther, Absent) >>,
      << Malformed(Json(Preloaded)), InFile(DocNested, Json(Preloaded)) >>,
      << Generated(DocSpell), InFile(DocOtherDict, Absent), InFile(DocOtherStr, Absent) >>,
      << InFile(DocSpell, Absent), InFile(DocWeapon, Undecodable),
         InFile(DocNoType, Absent) >>,
      << InFile(DocTable, Json(Preloaded)) >> }

(* The provider in a run: it answers at once, after one failure, or never. *)
RunStubs == { [i \in 1..MAX_RETRIES |-> i >= k] : k \in {1, 2, MAX_RETRIES + 1} }

RunProviders == {"A"}

(* translate_file, line 287: the cache file of the i-th input file *)
CacheFile(i) == [f |-> i, ext |-> "json"]

(* The cache written in place, without a temporary file. *)
TempFileInPlace(cacheFile) == cacheFile

(* cacheSync, line 117: f"{self._cacheFile}.swp" *)
TempFile(cacheFile) == [cacheFile EXCEPT !.ext = "swp"]

FileNames(n) == { CacheFile(i) : i \in 1..n } \cup { TempFile(CacheFile(i)) : i \in 1..n }

(* os.rename(src, dst) *)
Rename(fs, src, dst) ==
    IF src = dst THEN fs
    ELSE [n \in DOMAIN fs |-> IF n = dst THEN fs[src] ELSE IF n = src THEN Absent ELSE fs[n]]

(* __init__, lines 76-88: the mapping a cache file gives *)
LoadCache(file) == IF file.kind = "json" THEN file.map ELSE EmptyMap

(* __init__, lines 82-88: only json.JSONDecodeError is caught; the UnicodeDecodeError
   of f.read() leaves the constructor *)
LoadRaises(file) == file.kind = "undecodable"

(* A cacheSync that writes whether or not the cache is dirty. *)
SyncAlways(disabled, dirty) == ~disabled

(* __exit__ line 96 and cacheSync line 112: whether the cache file is written *)
SyncNeeded(disabled, dirty) == ~disabled /\ dirty

(* A with statement whose body's exception skips __exit__. *)
WithBodyRaisedNoExit == "aborted"

(* line 295: an exception that leaves the body of the with statement runs __exit__ *)
WithBodyRaised == "exit"

(* What follows the with statement: __exit__ returns None, so an exception that left
   the body goes on propagating and ends the process; otherwise line 322. *)
AfterWith(exc) == IF exc = "none" THEN "write" ELSE "aborted"

SyncPcs == { "sync_open", "sync_dump", "sync_rest", "sync_rename" }

cur == currentFileIndex

RunInit ==
    /\ disableCacheSave \in BOOLEAN
    /\ maxRuntime \in {0, 1}
    /\ writeJSON \in BOOLEAN
    /\ files \in Runs
    /\ fsys = [n \in FileNames(Len(files)) |->
                  IF n.ext = "json" THEN files[n.f].cache ELSE Absent]
    /\ outFile = [i \in 1..Len(files) |-> NoOutput]
    /\ now = 0 /\ currentFileIndex = 0 /\ todoCharCounter = 0
    /\ cacheData = EmptyMap /\ cacheDirty = FALSE /\ charCount = 0 /\ cachedCharCount = 0
    /\ pc = "main" /\ data = Dict(<< >>) /\ jobs = << >> /\ excPending = "none"
    /\ last = NoCall /\ nCalls = 0 /\ provided = EmptyMap
    /\ scope = NoScope /\ visited = << >> /\ deadlineAt = 0
    /\ CodecIdle

svcState == << cacheData, cacheDirty, charCount, cachedCharCount >>

callVars == << last, nCalls, provided >>

config == << disableCacheSave, maxRuntime, writeJSON, files >>

(* lines 397-414: the next file of the main loop, skipped when it is a generated one *)
MainNext ==
    /\ pc = "main" /\ cur < Len(files)
    /\ currentFileIndex' = cur + 1
    /\ pc' = IF files[cur + 1].generated THEN "main" ELSE "open"
    /\ UNCHANGED << config, now, todoCharCounter, fsys, outFile, svcState, data, jobs,
                    excPending, callVars, scope, visited, deadlineAt, codecVars >>

(* lines 415-420 *)
MainDone ==
    /\ pc = "main" /\ cur = Len(files)
    /\ pc' = "done"
    /\ UNCHANGED << config, now, currentFileIndex, todoCharCounter, fsys, outFile,
                    svcState, data, jobs, excPending, callVars, scope, visited,
                    deadlineAt, codecVars >>

(* translate_file, lines 287-296: data = {} and
   TranslatorService(language, cache_file).__enter__(); an exception of the constructor
   is raised before the with statement is entered and outside the try of line 298, so
   it leaves translate_file and the main loop. *)
Open ==
    /\ pc = "open"
    /\ cacheData' = LoadCache(fsys[CacheFile(cur)])
    /\ cacheDirty' = FALSE /\ charCount' = 0 /\ cachedCharCount' = 0
    /\ last' = NoCall /\ nCalls' = 0 /\ provided' = EmptyMap
    /\ visited' = << >> /\ jobs' = << >> /\ data' = Dict(<< >>)
    /\ IF LoadRaises(fsys[CacheFile(cur)])
       THEN /\ scope' = NoScope
            /\ excPending' = "UnicodeDecodeError"
            /\ pc' = "aborted"
       ELSE /\ scope' = [NoScope EXCEPT !.open = TRUE, !.file = cur,
                                        !.diskAtOpen = fsys[CacheFile(cur)],
                                        !.loaded = LoadCache(fsys[CacheFile(cur)])]
            /\ excPending' = excPending
            /\ pc' = "load"
    /\ UNCHANGED << config, now, currentFileIndex, todoCharCounter, fsys, outFile,
                    deadlineAt, codecVars >>

(* lines 299-307: json.load of the input file; its failure is logged *)
Load ==
    /\ pc = "load"
    /\ IF files[cur].parsable
       THEN /\ data' = files[cur].doc
            /\ jobs' = translate_data(files[cur].doc, << >>)
            /\ pc' = "walk"
            /\ UNCHANGED scope
       ELSE /\ pc' = "summary"
            /\ scope' = [scope EXCEPT !.logged = TRUE]
            /\ UNCHANGED << data, jobs >>
    /\ UNCHANGED << config, now, currentFileIndex, todoCharCounter, fsys, outFile,
                    svcState, excPending, callVars, visited, deadlineAt, codecVars >>

(* lines 305-310: except Exception logs the error and the walk of this file ends *)
Logged ==
    /\ pc' = "summary"
    /\ scope' = [scope EXCEPT !.logged = TRUE]
    /\ jobs' = << >>

(* A translate call of the walk that returned r, whose result stored gives newData. *)
Stored(path, r, newData) ==
    /\ Called(r)
    /\ IF r.kind = "deadline"
       THEN /\ Logged
            /\ deadlineAt' = IF deadlineAt = 0 THEN cur ELSE deadlineAt
            /\ UNCHANGED << data, visited >>
       ELSE /\ data' = newData
            /\ visited' = Append(visited, [path |-> path, text |-> r.text, ret |-> r.ret])
            /\ jobs' = Tail(jobs)
            /\ UNCHANGED << pc, scope, deadlineAt >>

(* One step of translate_data: the next translate call and the assignment of its
   result, or the error the walk raises there.  translate of a value that is no string
   raises TypeError in re.sub, before anything else. *)
WalkStep ==
    /\ pc = "walk" /\ jobs /= << >>
    /\ LET job  == Head(jobs)
           node == Get(data, job.path)
       IN \E stub \in RunStubs, prov \in RunProviders :
            CASE job.op = "translate" /\ node.t = "str" ->
                    LET r == translate(node.s, Service, stub, prov, disableCacheSave,
                                       maxRuntime, now)
                    IN Stored(job.path, r, Set(data, job.path, Str(r.ret)))
              [] job.op = "key" ->
                    LET r == translate(node.d[1].k, Service, stub, prov, disableCacheSave,
                                       maxRuntime, now)
                    IN Stored(job.path, r,
                              Set(data, job.path,
                                  Dict(Append(node.d, Field(Str10(0), Str(r.ret))))))
              [] OTHER ->
                    /\ Logged
                    /\ UNCHANGED << now, svcState, callVars, data, visited, deadlineAt >>
    /\ UNCHANGED << config, currentFileIndex, todoCharCounter, fsys, outFile, excPending,
                    codecVars >>

(* translate_data returns *)
WalkDone ==
    /\ pc = "walk" /\ jobs = << >>
    /\ pc' = "summary"
    /\ scope' = [scope EXCEPT !.walked = TRUE]
    /\ UNCHANGED << config, now, currentFileIndex, todoCharCounter, fsys, outFile,
                    svcState, data, jobs, excPending, callVars, visited, deadlineAt,
                    codecVars >>

(* lines 312-319 *)
Summary ==
    /\ pc = "summary"
    /\ todoCharCounter' = todoCharCounter + charCount
    /\ pc' = "exit"
    /\ UNCHANGED << config, now, currentFileIndex, fsys, outFile, svcState, data, jobs,
                    excPending, callVars, scope, visited, deadlineAt, codecVars >>

(* A KeyboardInterrupt (no Exception, so line 305 does not catch it) while the file is
   loaded or walked. *)
Interrupt ==
    /\ pc \in { "load", "walk" }
    /\ excPending' = "KeyboardInterrupt"
    /\ pc' = WithBodyRaised
    /\ UNCHANGED << config, now, currentFileIndex, todoCharCounter, fsys, outFile,
                    svcState, data, jobs, callVars, scope, visited, deadlineAt,
                    codecVars >>

(* __exit__, lines 93-101, and cacheSync up to line 115 *)
Exit ==
    /\ pc = "exit"
    /\ LET sync == SyncNeeded(disableCacheSave, cacheDirty)
       IN /\ scope' = [scope EXCEPT !.exited = TRUE, !.dirtyAtExit = cacheDirty,
                                    !.syncStarted = sync]
          /\ pc' = IF sync THEN "sync_open" ELSE AfterWith(excPending)
    /\ UNCHANGED << config, now, currentFileIndex, todoCharCounter, fsys, outFile,
                    svcState, data, jobs, excPending, callVars, visited, deadlineAt,
                    codecVars >>

syncFrame == << config, now, currentFileIndex, todoCharCounter, outFile, charCount,
                cachedCharCount, cacheData, data, jobs, excPending, callVars, visited,
                deadlineAt, codecVars >>

(* line 118: open(temp_file, "w") creates or truncates the temporary file *)
SyncOpen ==
    /\ pc = "sync_open"
    /\ fsys' = [fsys EXCEPT ![TempFile(CacheFile(cur))] = Empty]
    /\ pc' = "sync_dump"
    /\ UNCHANGED << syncFrame, cacheDirty, scope >>

(* line 119: json.dump writes the mapping piece by piece ... *)
SyncDump ==
    /\ pc = "sync_dump"
    /\ fsys' = [fsys EXCEPT ![TempFile(CacheFile(cur))] = Partial]
    /\ pc' = "sync_rest"
    /\ UNCHANGED << syncFrame, cacheDirty, scope >>

(* ... and the with block closes the complete file *)
SyncRest ==
    /\ pc = "sync_rest"
    /\ fsys' = [fsys EXCEPT ![TempFile(CacheFile(cur))] = Json(cacheData)]
    /\ pc' = "sync_rename"
    /\ UNCHANGED << syncFrame, cacheDirty, scope >>

(* lines 120-121 *)
SyncRename ==
    /\ pc = "sync_rename"
    /\ fsys' = Rename(fsys, TempFile(CacheFile(cur)), CacheFile(cur))
    /\ cacheDirty' = FALSE
    /\ pc' = AfterWith(excPending)
    /\ UNCHANGED << syncFrame, scope >>

(* lines 122-123: open, write or rename raises; the error is printed, not raised *)
SyncFail ==
    /\ pc \in SyncPcs
    /\ scope' = [scope EXCEPT !.syncFailed = TRUE]
    /\ pc' = AfterWith(excPending)
    /\ UNCHANGED << syncFrame, cacheDirty, fsys >>

(* The process is killed while cacheSync runs. *)
Crash ==
    /\ pc \in SyncPcs
    /\ pc' = "crashed"
    /\ UNCHANGED << syncFrame, cacheDirty, fsys, scope >>

(* lines 322-324 *)
Write ==
    /\ pc = "write"
    /\ outFile' = IF writeJSON
                  THEN [outFile EXCEPT ![cur] = [written |-> TRUE, doc |-> data]]
                  ELSE outFile
    /\ pc' = "main"
    /\ UNCHANGED << config, now, currentFileIndex, todoCharCounter, fsys, svcState, data,
                    jobs, excPending, callVars, scope, visited, deadlineAt, codecVars >>

Next ==
    \/ MainNext \/ MainDone \/ Open \/ Load \/ WalkStep \/ WalkDone \/ Summary
    \/ Interrupt \/ Exit \/ SyncOpen \/ SyncDump \/ SyncRest \/ SyncRename \/ SyncFail
    \/ Crash \/ Write \/ Tick

Spec == RunInit /\ [][Next]_vars

-----------------------------------------------------------------------------
(* Claims about a run (Spec) *)

(* C2: when all MAX_RETRIES provider attempts of a translate call fail, translate
   returns the text unchanged, raises nothing, adds no cache entry and leaves the dirty
   flag; the walk goes on with the remaining fields of the document. *)
C2_Exhausted ==
    [][ (IsCall /\ last'.calls = MAX_RETRIES /\ last'.failures = MAX_RETRIES)
          => /\ last'.kind = "exhausted"
             /\ last'.ret = last'.text
             /\ cacheData' = cacheData /\ cacheDirty' = cacheDirty
             /\ pc' = "walk" /\ jobs' = Tail(jobs)
             /\ scope'.logged = scope.logged /\ excPending' = "none" ]_vars

(* A call of the walk exhausted its attempts and fields remain to be walked. *)
C2_Witness ==
    /\ last.kind = "exhausted" /\ last.failures = MAX_RETRIES
    /\ pc = "walk" /\ jobs /= << >>
    /\ ~cacheDirty /\ cacheData = scope.loaded

(* C4: with a deadline configured, a translate call that finds it exceeded on a cache
   miss makes no provider call and aborts the run: no later document is opened, walked
   or written. *)
C4_DeadlineAborts ==
    /\ last.kind = "deadline" => last.calls = 0
    /\ (deadlineAt /= 0 /\ cur > deadlineAt) => pc \in { "main", "done" }

DurableCache == fsys[CacheFile(scope.file)]

(* C7: at __exit__ the cache file is written iff an entry was added during the scope
   and cache-writing is enabled, otherwise it is left as it was; no entry present at
   open is ever removed from the in-memory or the durable mapping. *)
C7_FlushIffDirty ==
    scope.open =>
        /\ scope.exited =>
              /\ scope.syncStarted <=> (cacheData /= scope.loaded /\ ~disableCacheSave)
              /\ scope.syncStarted <=> (scope.dirtyAtExit /\ ~disableCacheSave)
              /\ ~scope.syncStarted => DurableCache = scope.diskAtOpen
        /\ \A k \in DOMAIN scope.loaded : k \in DOMAIN cacheData
        /\ scope.diskAtOpen.kind = "json" =>
              /\ DurableCache.kind = "json"
              /\ \A k \in DOMAIN scope.diskAtOpen.map : k \in DOMAIN DurableCache.map

(* A scope that found entries, added one and wrote the file with all of them. *)
C7_Witness ==
    /\ scope.open /\ scope.exited /\ scope.syncStarted /\ pc = "write"
    /\ scope.loaded /= EmptyMap
    /\ DurableCache = Json(cacheData)
    /\ DurableCache /= scope.diskAtOpen

(* C8: whatever step of cacheSync fails or is cut short by a crash, the cache file
   holds the complete previous content or the complete new mapping, never a partial or
   empty one; only the temporary file can be partial. *)
C8_Atomic ==
    /\ \A n \in DOMAIN fsys : n.ext = "json" => fsys[n].kind \notin { "empty", "partial" }
    /\ scope.open => DurableCache \in { scope.diskAtOpen, Json(cacheData) }

(* The process was killed with the temporary file half written and the cache file of
   the earlier run intact. *)
C8_Witness ==
    /\ pc = "crashed"
    /\ fsys[TempFile(CacheFile(scope.file))].kind = "partial"
    /\ scope.diskAtOpen.kind = "json"
    /\ DurableCache = scope.diskAtOpen
    /\ cacheData /= scope.loaded

RECURSIVE AllPaths(_)
AllPaths(node) ==
    { << >> } \cup UNION { { << i >> \o p : p \in AllPaths(Child(node, i)) } :
                            i \in 1..Size(node) }

IsPrefix(p, q) == Len(p) <= Len(q) /\ SubSeq(q, 1, Len(p)) = p

InputDoc == files[scope.file].doc

(* The mappings the walk reaches by plain recursion: no field on the way to them is
   handled by one of the named rules. *)
PlainlyReached(q) ==
    \A n \in 1..Len(q) :
        LET parent == Get(InputDoc, SubSeq(q, 1, n - 1))
        IN parent.t = "dict" => parent.d[q[n]].k \notin (ListKeys \cup { K_entry, K_effect })

(* The items fields of the input document whose value is a sequence, in the mappings
   the walk reaches. *)
ItemsFields ==
    { x \in AllPaths(InputDoc) :
        /\ x /= << >>
        /\ LET q == SubSeq(x, 1, Len(x) - 1)
               m == Get(InputDoc, q)
           IN /\ m.t = "dict"
              /\ m.d[x[Len(x)]].k = K_items
              /\ m.d[x[Len(x)]].v.t = "list"
              /\ PlainlyReached(q) }

Owner(x) == Get(InputDoc, SubSeq(x, 1, Len(x) - 1))

Touched(x) == \E n \in 1..Len(visited) : IsPrefix(x, visited[n].path)

(* Every string element of the sequence at x holds what translate returned for it. *)
ElementsTranslated(x) ==
    \A idx \in 1..Len(Get(InputDoc, x).l) :
        Get(InputDoc, x).l[idx].t = "str" =>
            \E n \in 1..Len(visited) :
                /\ visited[n].path = Append(x, idx)
                /\ visited[n].text = Get(InputDoc, x).l[idx].s
                /\ Get(data, Append(x, idx)) = Str(visited[n].ret)

(* The items field at x was skipped whole, or had its string elements translated. *)
ItemsRule(x, skipped) ==
    IF skipped THEN ~Touched(x) /\ Get(data, x) = Get(InputDoc, x)
    ELSE ElementsTranslated(x)

WalkedAll == scope.open /\ scope.walked

TypedNotList(m) == HasKey(m, K_type) /\ Lookup(m, K_type) /= Str(V_list)

NotTypedList(m) == ~(HasKey(m, K_type) /\ Lookup(m, K_type) = Str(V_list))

(* C9 as stated: the items field is skipped iff the mapping has a type field that is
   not "list"; with type "list", and with no type field, its string elements are
   replaced by their translation. *)
C9_AsStated == WalkedAll => \A x \in ItemsFields : ItemsRule(x, TypedNotList(Owner(x)))

(* C9 amended: the items field is skipped iff the mapping has no type field or its
   type is not "list"; only with type "list" are its string elements replaced by their
   translation. *)
C9_ItemsRule == WalkedAll => \A x \in ItemsFields : ItemsRule(x, NotTypedList(Owner(x)))

(* A walk that ended with the items of a mapping without a type field untouched, and
   another field of that mapping translated. *)
C9_Witness ==
    /\ scope.open /\ scope.walked
    /\ \E x \in ItemsFields :
          /\ ~HasKey(Owner(x), K_type)
          /\ \E idx \in 1..Len(Get(InputDoc, x).l) : Get(InputDoc, x).l[idx] = Str(Long1)
          /\ Get(data, x) = Get(InputDoc, x)
    /\ visited /= << >>

(* The with statement of translate_file has been left. *)
LeftWith == scope.open /\ pc \in { "write", "main", "done", "aborted" }

InDurableCache(text, value) ==
    /\ DurableCache.kind = "json"
    /\ text \in DOMAIN DurableCache.map
    /\ DurableCache.map[text] = value

(* C10: on every exit path of a document (normal end, logged error, propagating
   exception or interrupt) the cache scope is closed, and with cache-writing enabled
   and no persistence failure every translation that succeeded is in the durable
   cache; after a logged error the run goes on to the next document. *)
C10_ExitPaths ==
    LeftWith =>
        /\ scope.exited
        /\ (~disableCacheSave /\ ~scope.syncFailed) =>
              \A x \in DOMAIN provided : InDurableCache(x, provided[x])
        /\ (scope.logged /\ excPending = "none") =>
              /\ pc /= "aborted"
              /\ (pc = "main" /\ cur < Len(files)) => ENABLED MainNext

(* A document whose walk ended in a logged error after a translation succeeded: the
   translation is in the cache file and the run is about to go on. *)
C10_Witness ==
    /\ LeftWith /\ scope.logged /\ pc = "main" /\ cur < Len(files)
    /\ provided /= EmptyMap
    /\ \A x \in DOMAIN provided : InDurableCache(x, provided[x])

-----------------------------------------------------------------------------
(* The cache scope with cache-writing disabled *)

(* The translate calls of the walk that were answered from the cache. *)
HitsOfLoaded ==
    { n \in 1..Len(visited) :
        /\ visited[n].text \in DOMAIN scope.loaded
        /\ visited[n].ret = scope.loaded[visited[n].text] }

(* C11: while cache-writing is disabled, cacheSet changes nothing: after any sequence of
   translate calls the in-memory mapping is the one loaded at open and the dirty flag
   is false, the cache file is never written at close, and a lookup of an entry loaded
   at open still hits. *)
C11_DisabledFrame ==
    (disableCacheSave /\ scope.open) =>
        /\ cacheData = scope.loaded
        /\ ~cacheDirty
        /\ ~scope.syncStarted
        /\ pc \notin SyncPcs
        /\ DurableCache = scope.diskAtOpen
        /\ fsys[TempFile(CacheFile(scope.file))] = Absent
        /\ (last.kind \in { "hit", "deadline", "ok", "exhausted" }
              /\ last.text \in DOMAIN scope.loaded) =>
                 /\ last.kind = "hit"
                 /\ last.ret = scope.loaded[last.text]
                 /\ last.calls = 0

(* With cache-writing disabled, a scope was closed after a walk in which the provider
   translated a text and an entry loaded at open was served from the cache. *)
C11_Witness ==
    /\ disableCacheSave /\ scope.open /\ scope.exited /\ pc = "write"
    /\ provided /= EmptyMap
    /\ HitsOfLoaded /= {}
    /\ cacheData = scope.loaded /\ cacheData /= EmptyMap

-----------------------------------------------------------------------------
(* Opening a cache scope *)

(* C12: opening a cache scope never fails the run because of what the cache file
   holds: an absent file gives an empty mapping, a present file that cannot be parsed
   gives an empty mapping, only a parsable file gives its stored mapping, and the run
   is never ended by an error of the open. *)
C12_OpenNeverFails ==
    /\ scope.open =>
          scope.loaded = IF scope.diskAtOpen.kind = "json" THEN scope.diskAtOpen.map
                         ELSE EmptyMap
    /\ (cur > 0 /\ pc \notin { "main", "open", "done" } /\ ~files[cur].generated) =>
          /\ scope.open /\ scope.file = cur
          /\ scope.diskAtOpen.kind \in { "absent", "json", "corrupt", "undecodable" }
    /\ excPending /= "UnicodeDecodeError"

-----------------------------------------------------------------------------
(* The walk of a document *)

(* The positions of the input document the walk comes to: nothing on the way to them
   is a section of an other mapping or lies in an items field the walk skips. *)
Reached(q) ==
    \A n \in 1..Len(q) :
        LET parent == Get(InputDoc, SubSeq(q, 1, n - 1))
        IN parent.t = "dict" =>
              LET k == parent.d[q[n]].k
                  v == parent.d[q[n]].v
              IN /\ ~(k = K_other /\ v.t = "dict")
                 /\ ~(k = K_items /\ v.t = "list" /\ ItemsSkipped(parent))

(* The sections of the other mappings of the input document: the values of the fields
   of a mapping that is the value of a field named other. *)
OtherSections ==
    { x \in AllPaths(InputDoc) :
        /\ Len(x) >= 2
        /\ LET vp == SubSeq(x, 1, Len(x) - 1)
               pp == SubSeq(x, 1, Len(x) - 2)
           IN /\ Get(InputDoc, pp).t = "dict"
              /\ Get(InputDoc, pp).d[vp[Len(vp)]].k = K_other
              /\ Get(InputDoc, vp).t = "dict"
              /\ Reached(pp) }

(* The walk of the loaded document has translated the string at p: translate was
   called with the input string and the document holds what it returned. *)
TranslatedAt(p) ==
    \E n \in 1..Len(visited) :
        /\ visited[n].path = p
        /\ visited[n].text = Get(InputDoc, p).s
        /\ Get(data, p) = Str(visited[n].ret)

(* C13: for a field named other whose value is a mapping of lists, the walk replaces
   every string element of every list by translate(element) in place, keeps the order,
   the length and the tags of the elements, leaves the elements that are not strings
   untouched, and these cause no error: the walk logs none but the deadline. *)
C13_OtherLists ==
    (/\ scope.open /\ files[scope.file].parsable /\ data /= Dict(<< >>)
     /\ \A x \in OtherSections : Get(InputDoc, x).t = "list") =>
        /\ scope.logged => last.kind = "deadline"
        /\ \A x \in OtherSections :
              /\ Len(Get(data, x).l) = Len(Get(InputDoc, x).l)
              /\ \A idx \in 1..Len(Get(InputDoc, x).l) :
                    LET e == Get(InputDoc, x).l[idx]
                        p == Append(x, idx)
                    IN IF e.t = "str"
                       THEN /\ Get(data, p).t = "str"
                            /\ TagsOf(Get(data, p).s) = TagsOf(e.s)
                            /\ scope.walked => TranslatedAt(p)
                       ELSE Get(data, p) = e

-----------------------------------------------------------------------------
(* The counters of a TranslatorService (SpecSvc) *)

(* C14: charCount is increased by len(text) exactly by the translate calls that end in
   provider success, and is left alone by a call that is skipped, hits the cache,
   raises the deadline condition or exhausts its MAX_RETRIES attempts; cachedCharCount
   is increased by len(text) exactly by the cache hits. *)
C14_Counters ==
    [][ IF IsCall
        THEN /\ charCount' = charCount
                               + (IF last'.kind = "ok" THEN Len(last'.text) ELSE 0)
             /\ cachedCharCount' = cachedCharCount
                               + (IF last'.kind = "hit" THEN Len(last'.text) ELSE 0)
        ELSE UNCHANGED << charCount, cachedCharCount >> ]_vars

-----------------------------------------------------------------------------
(* The documents written (Spec) *)

(* Two JSON values differ in their strings only: the same mapping keys in the same
   order, the same sequence lengths, the same values that are no strings. *)
RECURSIVE SameShape(_, _)
SameShape(a, b) ==
    /\ a.t = b.t
    /\ CASE a.t = "dict" ->
                /\ Len(a.d) = Len(b.d)
                /\ \A i \in 1..Len(a.d) :
                      a.d[i].k = b.d[i].k /\ SameShape(a.d[i].v, b.d[i].v)
         [] a.t = "list" ->
                /\ Len(a.l) = Len(b.l)
                /\ \A i \in 1..Len(a.l) : SameShape(a.l[i], b.l[i])
         [] a.t = "num" -> a = b
         [] OTHER -> TRUE

(* C15: an output document is written only when output-writing is enabled, and every
   output document written for an input document has the shape of that input, whether
   or not the walk of the document ended with a logged error. *)
C15_OutputShape ==
    \A i \in 1..Len(outFile) :
        outFile[i].written =>
            /\ writeJSON
            /\ ~files[i].generated
            /\ files[i].parsable => SameShape(files[i].doc, outFile[i].doc)

-----------------------------------------------------------------------------
(* The backoff of a translate call (SpecSvc) *)

(* C16: a translate call that reaches the provider does not sleep before its first
   attempt, sleeps BASE_DELAY * 2^(k-1), that is 1, 2, 4, 8, before its attempt k for
   1 <= k <= 4, and does not sleep after its last attempt, so it sleeps at most 15 in
   all; a call that does not reach the provider does not sleep. *)
C16_Backoff ==
    IF last.kind \in { "ok", "exhausted" }
    THEN /\ last.calls \in 1..MAX_RETRIES
         /\ Len(last.sleeps) = last.calls - 1
         /\ \A k \in 1..Len(last.sleeps) :
               /\ last.sleeps[k] = BASE_DELAY * 2 ^ (k - 1)
               /\ last.sleeps[k] = << 1, 2, 4, 8 >>[k]
         /\ SumSeq(last.sleeps) <= 15
         /\ last.kind = "exhausted" => last.sleeps = << 1, 2, 4, 8 >>
    ELSE last.sleeps = << >>

(* A call failed on all its attempts and slept 1, 2, 4 and 8 between them. *)
C16_Witness ==
    /\ last.kind = "exhausted" /\ last.calls = MAX_RETRIES
    /\ last.sleeps = << 1, 2, 4, 8 >>
    /\ SumSeq(last.sleeps) = 15

-----------------------------------------------------------------------------
(* The list rule of the walk (Spec) *)

(* The fields of the input document the list rule selects: a field named entries,
   items, rows, headerEntries, reasons, other or lifeTrinket whose value is a sequence,
   in a mapping the walk comes to, and not skipped by the items rule. *)
SelectedSeqs ==
    { x \in AllPaths(InputDoc) :
        /\ x /= << >>
        /\ LET m == Get(InputDoc, SubSeq(x, 1, Len(x) - 1))
           IN /\ m.t = "dict"
              /\ m.d[x[Len(x)]].k \in ListKeys
              /\ m.d[x[Len(x)]].v.t = "list"
        /\ Reached(x) }

VisitedUnder(p) == { visited[n].path : n \in { i \in 1..Len(visited) :
                                                 IsPrefix(p, visited[i].path) } }

JobPaths(js) == { js[i].path : i \in 1..Len(js) }

(* The value at p is as in the input, and nothing at or below p was passed to
   translate. *)
Untouched(p) == Get(data, p) = Get(InputDoc, p) /\ VisitedUnder(p) = {}

(* The value at p was walked as a generic node: translate was called at the positions
   the walk of that value selects, and nowhere else below p. *)
WalkedGeneric(p) == VisitedUnder(p) = JobPaths(translate_data(Get(InputDoc, p), p))

(* The rule for the sub-element at sp of a nested sequence; with generic set, a
   sub-element that is a mapping or a sequence is walked as a generic node, otherwise
   it has to stay untouched. *)
SubElementRule(sp, generic) ==
    LET sub == Get(InputDoc, sp)
    IN CASE sub.t = "str" /\ Len(sub.s) > 2 -> TranslatedAt(sp)
         [] sub.t \in { "dict", "list" } /\ generic -> WalkedGeneric(sp)
         [] OTHER -> Untouched(sp)

(* The rule for the element at p of a selected sequence. *)
ElementRule(p, generic) ==
    LET e == Get(InputDoc, p)
    IN CASE e.t = "str" -> TranslatedAt(p)
         [] e.t = "list" ->
                /\ Len(Get(data, p).l) = Len(e.l)
                /\ \A j \in 1..Len(e.l) : SubElementRule(Append(p, j), generic)
         [] OTHER -> WalkedGeneric(p)

(* C17 as stated: in a selected sequence a string element is replaced by its
   translation, a sequence element has exactly its string sub-elements longer than 2
   characters replaced while all its other sub-elements stay untouched, and any other
   element is walked as a generic node. *)
C17_AsStated ==
    WalkedAll => \A x \in SelectedSeqs :
                    \A idx \in 1..Len(Get(InputDoc, x).l) : ElementRule(Append(x, idx), FALSE)

(* C17 amended: as above, but only the shorter strings and the scalars of a sequence
   element stay untouched; its sub-elements that are mappings or sequences are walked
   as generic nodes, since the sequence element is itself walked as one after its
   strings were replaced. *)
C17_ListRule ==
    WalkedAll => \A x \in SelectedSeqs :
                    /\ Len(Get(data, x).l) = Len(Get(InputDoc, x).l)
                    /\ \A idx \in 1..Len(Get(InputDoc, x).l) :
                          ElementRule(Append(x, idx), TRUE)

(* A walk ended with a sequence element whose long string was replaced, whose short
   string and number are as they were, and whose mapping had its entry translated. *)
C17_Witness ==
    /\ WalkedAll
    /\ \E x \in SelectedSeqs : \E idx \in 1..Len(Get(InputDoc, x).l) :
          LET p == Append(x, idx)
              e == Get(InputDoc, p)
          IN /\ e.t = "list"
             /\ \E j \in 1..Len(e.l) :
                   /\ e.l[j].t = "str" /\ Len(e.l[j].s) > 2
                   /\ Get(data, Append(p, j)) /= e.l[j]
             /\ \E j \in 1..Len(e.l) :
                   e.l[j].t = "str" /\ Len(e.l[j].s) <= 2 /\ Untouched(Append(p, j))
             /\ \E j \in 1..Len(e.l) : e.l[j].t = "num" /\ Untouched(Append(p, j))
             /\ \E j \in 1..Len(e.l) :
                   /\ e.l[j].t = "dict"
                   /\ Get(data, Append(p, j)) /= e.l[j]
                   /\ VisitedUnder(Append(p, j)) /= {}

-----------------------------------------------------------------------------
(* What the walk leaves alone (Spec) *)

Front(p) == SubSeq(p, 1, Len(p) - 1)

(* The positions the field-name rules select: the value of a field named entry or
   effect, an element of a selected sequence or of a sequence element of one, and an
   element of a list section of an other mapping. *)
SelectedPosition(p) ==
    /\ p /= << >>
    /\ Get(InputDoc, p).t = "str"
    /\ \/ /\ Get(InputDoc, Front(p)).t = "dict"
          /\ Get(InputDoc, Front(p)).d[p[Len(p)]].k \in { K_entry, K_effect }
          /\ Reached(p)
       \/ Front(p) \in SelectedSeqs
       \/ /\ Len(p) >= 3
          /\ Front(Front(p)) \in SelectedSeqs
          /\ Get(InputDoc, Front(p)).t = "list"
       \/ /\ Front(p) \in OtherSections
          /\ Get(InputDoc, Front(p)).t = "list"

(* C18: the walk changes only string values at positions the field-name rules select:
   the document keeps its mapping keys, the lengths and the order of its sequences and
   its values that are no strings, translate is called at selected positions only, and
   every string at another position is as in the input. *)
C18_WalkFrame ==
    (scope.open /\ data /= Dict(<< >>)) =>
        /\ SameShape(InputDoc, data)
        /\ \A n \in 1..Len(visited) : SelectedPosition(visited[n].path)
        /\ \A p \in AllPaths(InputDoc) :
              (Get(InputDoc, p).t = "str" /\ ~SelectedPosition(p)) =>
                  Get(data, p) = Get(InputDoc, p)

-----------------------------------------------------------------------------
(* One translate call for each position (Spec) *)

(* C19: during the walk of a document each string position of the tree is passed to
   translate at most once, and what is passed is the string of the input document,
   never a value translate has already returned for that position. *)
C19_AtMostOnce ==
    scope.open =>
        /\ \A m, n \in 1..Len(visited) : visited[m].path = visited[n].path => m = n
        /\ \A n \in 1..Len(visited) :
              Get(InputDoc, visited[n].path).t = "str" =>
                  visited[n].text = Get(InputDoc, visited[n].path).s

(* A walk ended in which a string of a sequence element was replaced by a translation
   that differs from it, and a string in a mapping inside that element as well. *)
C19_Witness ==
    /\ WalkedAll /\ pc = "summary"
    /\ \E m, n \in 1..Len(visited) :
          /\ m /= n
          /\ Len(visited[m].path) >= 3
          /\ Front(Front(visited[m].path)) \in SelectedSeqs
          /\ Get(InputDoc, Front(visited[m].path)).t = "list"
          /\ visited[m].ret /= visited[m].text
          /\ IsPrefix(Front(visited[m].path), visited[n].path)
          /\ visited[n].ret /= visited[n].text

-----------------------------------------------------------------------------
(* The dirty flag of a cache scope (Spec) *)

(* While the flag is false the in-memory mapping is the one loaded at open or the one
   the cache file holds after the last successful cacheSync. *)
CleanMeansSaved ==
    (scope.open /\ ~cacheDirty) =>
        \/ cacheData = scope.loaded
        \/ DurableCache = Json(cacheData)

(* The steps of one cache scope: a cacheSet that stores an entry sets the flag, only
   the rename that ends a successful cacheSync clears it, and a cacheSync that fails
   raises nothing and leaves the flag and the in-memory mapping. *)
DirtyStep ==
    /\ (IsCall /\ last'.kind = "ok" /\ ~disableCacheSave) =>
          /\ cacheDirty'
          /\ last'.text \in DOMAIN cacheData' /\ cacheData'[last'.text] = last'.ret
    /\ (pc /= "open" /\ cacheData' /= cacheData) =>
          (cacheDirty' /\ IsCall /\ last'.kind = "ok")
    /\ (pc /= "open" /\ cacheDirty /\ ~cacheDirty') =>
          /\ pc = "sync_rename"
          /\ fsys'[CacheFile(scope.file)] = Json(cacheData)
          /\ cacheData' = cacheData
    /\ (scope'.syncFailed /\ ~scope.syncFailed) =>
          /\ cacheDirty /\ cacheDirty'
          /\ cacheData' = cacheData
          /\ fsys'[CacheFile(scope.file)] = scope.diskAtOpen
          /\ excPending' = excPending
          /\ pc' = AfterWith(excPending)

(* C20: in every reachable state of a cache scope, a false dirty flag means that the
   in-memory mapping equals the mapping loaded at open or last persisted; the flag is
   set by every cacheSet that takes effect and cleared only by a successful cacheSync;
   a failed cacheSync raises nothing and leaves the flag set and the mapping as it
   was. *)
C20_DirtyFlag == []CleanMeansSaved /\ [][DirtyStep]_vars

(* A cacheSync failed after the walk added an entry: the flag is still set, the
   mapping holds the entry, the cache file is as at open, and the document goes on to
   be written. *)
C20_Witness ==
    /\ scope.open /\ scope.syncFailed /\ pc = "write"
    /\ cacheDirty /\ cacheData /= scope.loaded
    /\ DurableCache = scope.diskAtOpen
    /\ excPending = "none"

====
